---- MODULE Spec2Model ----
(***************************************************************************)
(* Model of the mountainnano repository.                                   *)
(*                                                                         *)
(*  - The runtime playback / camera controller: the page state of          *)
(*    VisualizationPage (activeIndex, isPlaying), the refs of              *)
(*    CameraController (lastIndexRef, playbackElapsedRef,                  *)
(*    animatingToStepRef) and the camera, driven by the click handlers     *)
(*    and by the per-frame callback.                                       *)
(*  - The offline GPX -> JSON pipeline (main of the converter script).     *)
(*                                                                         *)
(* Units.  Lengths are fixed-point hundredths of a scene unit (1.6 is      *)
(* 160).  The camera is followed along one axis (x); a lerp step keeps     *)
(* 96% of the remaining displacement, rounded toward the target.  Time is  *)
(* counted in ticks of half a second.                                      *)
(*                                                                         *)
(* React.  A handler's setState calls, the re-render they cause and the    *)
(* effects of that render are one step: the render triggered by a click    *)
(* is flushed before the next animation frame, and a render changes the    *)
(* refs only through the effect, which runs when activeIndex or isPlaying  *)
(* differ from the previous render.                                        *)
(***************************************************************************)
EXTENDS Integers, Sequences, FiniteSets, TLC

VARIABLES
    timeline,            \* TimelineEntry[]: the x of each entry's position
    activeIndex,         \* VisualizationPage state
    isPlaying,           \* VisualizationPage state
    lastIndexRef,        \* CameraController ref
    playbackElapsedRef,  \* CameraController ref, in ticks
    animatingToStepRef,  \* CameraController ref
    cameraX,             \* camera.position (x axis)
    event,               \* history: the last step taken
    arg,                 \* history: its argument (index selected, delta)
    lastUser,            \* history: the last user input, [kind, at, was]
    stepElapsed,         \* history: the last frame took the branch of line 132
    advanceCalls,        \* history: arguments onStepAutoAdvance got in the last frame
    pc,                  \* pipeline: position in main
    rawCount,            \* pipeline: number of <trkpt> in the GPX file
    faultAt,             \* pipeline: the step that throws, or "none"
    sampledCount,        \* pipeline: number of samples kept by the downsampling
    computed,            \* pipeline: payloads computed so far
    written,             \* pipeline: files written by this run
    exitCode,            \* pipeline: process exit status, -1 while running
    rawPoints,           \* data: the samples given to normalizePoints
    points,              \* data: normalized trail points
    times,               \* data: the samples' timestamps, NaN where missing
    bbox,                \* data: bounding box of the samples
    poiDefs,             \* data: the checkpoint definitions of pois.json
    timelinePayload,     \* data: what buildTimeline returns
    heights,             \* data: the heights grid buildHeightfield returns
    snapped              \* history: per definition, the rule buildTimeline took
                         \* and the trail index it chose

runtimeVars == <<timeline, activeIndex, isPlaying, lastIndexRef, playbackElapsedRef,
                 animatingToStepRef, cameraX, event, arg, lastUser, stepElapsed,
                 advanceCalls>>

dataVars == <<rawPoints, points, times, bbox, poiDefs, timelinePayload, heights,
              snapped>>

pipelineVars == <<pc, rawCount, faultAt, sampledCount, computed, written, exitCode,
                  dataVars>>

vars == <<runtimeVars, pipelineVars>>

-----------------------------------------------------------------------------
(* Bounds of the model *)

MaxLen == 3

MaxDelta == 4

MaxStart == 1

MaxRaw == 4

MaxTrack == 1100

MaxSamples == 2

MaxPts == 3

MaxPois == 2

MaxTrail == 2

-----------------------------------------------------------------------------
(* Program constants *)

ARRIVAL_THRESHOLD == 5

PLAYBACK_SECONDS_PER_STEP == 2

LerpAlphaPct == 4

TargetOffsetX == 160

InitialCameraX == 600

DownsampleTarget == 500

\* Number.NaN and Infinity: two integers no computed value reaches
NaN == -2147483647

Infinity == 2147483647

\* The 1 of `maxLat - minLat || 1`, latitudes and longitudes being in tenths
\* of a degree
SpanFallback == 10

\* The 1 of `maxEle - minEle || 1`, elevations being in metres
EleSpanFallback == 1

\* 4 / maxSpan and 0.8 / eleSpan, normalized coordinates being in thousandths
HorizontalExtentMilli == 4000

ElevationExtentMilli == 800

\* buildHeightfield: the grid, and sigma in tenths
resolution == 64

size == 8

SigmaTenths == 12

\* elapsedSeconds are in tenths of a second, elapsedMinutes in tenths of a minute
ElapsedUnitsPerSecond == 10

\* PLAYBACK_SECONDS_PER_STEP in ticks of half a second
StepTicks == PLAYBACK_SECONDS_PER_STEP * 2

Abs(n) == IF n < 0 THEN -n ELSE n

Max(a, b) == IF a >= b THEN a ELSE b

-----------------------------------------------------------------------------
(* Timeline data (timeline.json): positions lie in [-200, 200] *)

CheckpointX(i) == ((i * 130) % 401) - 200

TimelineOfLength(n) == [i \in 1..n |-> CheckpointX(i - 1)]

\* timeline[activeIndex]; JavaScript yields undefined outside the array
Current(tl, idx) == IF idx + 1 \in DOMAIN tl THEN tl[idx + 1] ELSE 0

HasCurrentMutant(tl, idx) == TRUE

\* `if (!current) return` : the frame proceeds only when the entry exists
HasCurrent(tl, idx) == idx + 1 \in DOMAIN tl

\* lerpTarget.set(x + 1.6, ...)
LerpTarget(tl, idx) == Current(tl, idx) + TargetOffsetX

\* camera.position.lerp(lerpTarget, 0.04)
Lerp(p, target) ==
    LET r == target - p
        keep == (Abs(r) * (100 - LerpAlphaPct)) \div 100
    IN IF r >= 0 THEN target - keep ELSE target + keep

\* camera.position.distanceTo(lerpTarget)
DistanceTo(p, target) == Abs(target - p)

ArrivedMutant(p, target) == FALSE

\* distance < ARRIVAL_THRESHOLD
Arrived(p, target) == DistanceTo(p, target) < ARRIVAL_THRESHOLD

StepDueMutant(elapsed) == elapsed > StepTicks

\* playbackElapsedRef.current >= PLAYBACK_SECONDS_PER_STEP
StepDue(elapsed) == elapsed >= StepTicks

PlaybackBranchMutant(playing) == TRUE

\* `if (isPlaying)` of the frame callback
PlaybackBranch(playing) == playing

SelectableIndicesMutant(tl) == 1..Len(tl)

\* timeline.map((entry, index) => ... onClick={() => handleSelectStep(index)})
SelectableIndices(tl) == 0..(Len(tl) - 1)

-----------------------------------------------------------------------------
(* CameraController useEffect, deps [activeIndex, isPlaying] *)

useEffectKeepTimerMutant(prevAi, prevIp, ai, ip, refs) ==
    IF ai = prevAi /\ ip = prevIp
    THEN refs
    ELSE [last |-> ai,
          elapsed |-> refs.elapsed,
          animating |-> IF ~ip THEN TRUE ELSE refs.animating]

\* The refs after a render with props <<ai, ip>>, the previous render having
\* had <<prevAi, prevIp>>; refs is [last, elapsed, animating].
useEffect(prevAi, prevIp, ai, ip, refs) ==
    IF ai = prevAi /\ ip = prevIp
    THEN refs
    ELSE [last |-> ai,
          elapsed |-> 0,
          animating |-> IF ~ip THEN TRUE ELSE refs.animating]

\* handleAutoAdvance(nextIndex): the page state it produces
handleAutoAdvance(ai, ip, nextIndex, tl) ==
    IF ~ip THEN [activeIndex |-> ai, isPlaying |-> ip]
    ELSE IF nextIndex >= Len(tl) THEN [activeIndex |-> ai, isPlaying |-> FALSE]
    ELSE [activeIndex |-> nextIndex, isPlaying |-> ip]

CurrentRefs == [last |-> lastIndexRef, elapsed |-> playbackElapsedRef,
                animating |-> animatingToStepRef]

\* Page state becomes <<ai, ip>>, the scene re-renders, the effect runs
Render(ai, ip, refs) ==
    LET r == useEffect(activeIndex, isPlaying, ai, ip, refs)
    IN /\ activeIndex' = ai
       /\ isPlaying' = ip
       /\ lastIndexRef' = r.last
       /\ playbackElapsedRef' = r.elapsed
       /\ animatingToStepRef' = r.animating

SelectStateMutant(k) == [activeIndex |-> k, isPlaying |-> isPlaying]

\* handleSelectStep: setActiveIndex(index); setIsPlaying(false)
SelectState(k) == [activeIndex |-> k, isPlaying |-> FALSE]

-----------------------------------------------------------------------------
(* User input *)

handleSelectStep(k) ==
    /\ pc = "runtime"
    /\ k \in SelectableIndices(timeline)
    /\ Render(SelectState(k).activeIndex, SelectState(k).isPlaying, CurrentRefs)
    /\ event' = "select"
    /\ arg' = k
    /\ lastUser' = [kind |-> "select", at |-> k, was |-> isPlaying]
    /\ advanceCalls' = <<>>
    /\ stepElapsed' = FALSE
    /\ UNCHANGED <<timeline, cameraX, pipelineVars>>

handleTogglePlay ==
    /\ pc = "runtime"
    /\ Render(activeIndex, ~isPlaying, CurrentRefs)
    /\ event' = "toggle"
    /\ arg' = 0
    /\ lastUser' = IF isPlaying
                   THEN [kind |-> "pause", at |-> playbackElapsedRef, was |-> TRUE]
                   ELSE [kind |-> "play", at |-> 0, was |-> FALSE]
    /\ advanceCalls' = <<>>
    /\ stepElapsed' = FALSE
    /\ UNCHANGED <<timeline, cameraX, pipelineVars>>

\* Reset button: onClick={() => setActiveIndex(0)} disabled={activeIndex === 0}
ResetClick ==
    /\ pc = "runtime"
    /\ activeIndex # 0
    /\ Render(0, isPlaying, CurrentRefs)
    /\ event' = "reset"
    /\ arg' = 0
    /\ lastUser' = [kind |-> "reset", at |-> 0, was |-> isPlaying]
    /\ advanceCalls' = <<>>
    /\ stepElapsed' = FALSE
    /\ UNCHANGED <<timeline, cameraX, pipelineVars>>

-----------------------------------------------------------------------------
(* The frame callback *)

\* The arrival branch: <<camera, animating>> after it
ArrivalStep(cam, animating, target) ==
    IF animating
    THEN LET c == Lerp(cam, target)
         IN [camera |-> c, animating |-> IF Arrived(c, target) THEN FALSE ELSE TRUE]
    ELSE [camera |-> cam, animating |-> animating]

\* The playback branch: the refs after it and the calls it makes
PlaybackStep(playing, last, elapsed, delta, tl) ==
    IF ~PlaybackBranch(playing)
    THEN [last |-> last, elapsed |-> elapsed, due |-> FALSE, calls |-> <<>>]
    ELSE IF ~StepDue(elapsed + delta)
    THEN [last |-> last, elapsed |-> elapsed + delta, due |-> FALSE, calls |-> <<>>]
    ELSE IF last + 1 < Len(tl)
    THEN [last |-> last + 1, elapsed |-> 0, due |-> TRUE, calls |-> <<last + 1>>]
    ELSE [last |-> last, elapsed |-> 0, due |-> TRUE, calls |-> <<>>]

useFrame(delta) ==
    /\ pc = "runtime"
    /\ event' = "frame"
    /\ arg' = delta
    /\ UNCHANGED <<timeline, lastUser, pipelineVars>>
    /\ IF ~HasCurrent(timeline, activeIndex)
       THEN /\ advanceCalls' = <<>>
            /\ stepElapsed' = FALSE
            /\ UNCHANGED <<activeIndex, isPlaying, lastIndexRef, playbackElapsedRef,
                           animatingToStepRef, cameraX>>
       ELSE LET a == ArrivalStep(cameraX, animatingToStepRef,
                                 LerpTarget(timeline, activeIndex))
                p == PlaybackStep(isPlaying, lastIndexRef, playbackElapsedRef,
                                  delta, timeline)
                refs == [last |-> p.last, elapsed |-> p.elapsed,
                         animating |-> a.animating]
                st == IF p.calls = <<>>
                      THEN [activeIndex |-> activeIndex, isPlaying |-> isPlaying]
                      ELSE handleAutoAdvance(activeIndex, isPlaying, p.calls[1],
                                             timeline)
            IN /\ cameraX' = a.camera
               /\ advanceCalls' = p.calls
               /\ stepElapsed' = p.due
               /\ Render(st.activeIndex, st.isPlaying, refs)

\* The deltas tried: every short one, and one spanning two whole steps
Deltas == (0..MaxDelta) \cup {2 * StepTicks}

Frame == \E delta \in Deltas : useFrame(delta)

Select == \E k \in 0..MaxLen : handleSelectStep(k)

-----------------------------------------------------------------------------
(* Runtime specification *)

\* No data function has been given anything
DataIdle ==
    /\ rawPoints = <<>>
    /\ points = <<>>
    /\ times = <<>>
    /\ bbox = <<>>
    /\ poiDefs = <<>>
    /\ timelinePayload = <<>>
    /\ heights = <<>>
    /\ snapped = <<>>

PipelineIdle ==
    /\ DataIdle
    /\ pc = "runtime"
    /\ rawCount = 0
    /\ faultAt = "none"
    /\ sampledCount = 0
    /\ computed = {}
    /\ written = {}
    /\ exitCode = -1

\* useState(0), useState(false), the useRef initial values, the Canvas camera
Init ==
    /\ timeline \in {TimelineOfLength(n) : n \in 0..MaxLen}
    /\ activeIndex = 0
    /\ isPlaying = FALSE
    /\ lastIndexRef = 0
    /\ playbackElapsedRef = 0
    /\ animatingToStepRef = TRUE
    /\ cameraX = InitialCameraX
    /\ event = "init"
    /\ arg = 0
    /\ lastUser = [kind |-> "none", at |-> 0, was |-> FALSE]
    /\ stepElapsed = FALSE
    /\ advanceCalls = <<>>
    /\ PipelineIdle

Next ==
    \/ Select
    \/ handleTogglePlay
    \/ ResetClick
    \/ Frame

Spec == Init /\ [][Next]_vars

-----------------------------------------------------------------------------
(* Arrival: the controller right after a render armed the animation, the    *)
(* camera wherever the orbit controls left it, and frames only from then on *)

ArrivalStarts == {InitialCameraX - 100 * s : s \in 0..MaxStart}
                     \cup {-(InitialCameraX - 100 * s) : s \in 0..MaxStart}

ArrivalInit ==
    /\ timeline \in {TimelineOfLength(n) : n \in 1..MaxLen}
    /\ activeIndex \in 0..(Len(timeline) - 1)
    /\ isPlaying \in BOOLEAN
    /\ lastIndexRef = activeIndex
    /\ playbackElapsedRef = 0
    /\ animatingToStepRef = TRUE
    /\ cameraX \in ArrivalStarts
    /\ event = "init"
    /\ arg = 0
    /\ lastUser = [kind |-> "none", at |-> 0, was |-> FALSE]
    /\ stepElapsed = FALSE
    /\ advanceCalls = <<>>
    /\ PipelineIdle

ArrivalNext == Frame

\* The render loop calls the frame callback again and again
ArrivalSpec == ArrivalInit /\ [][ArrivalNext]_vars /\ WF_vars(Frame)

-----------------------------------------------------------------------------
(* The offline pipeline: main() of the converter script *)

Files == {"trail", "timeline", "terrain"}

MainOrder == <<"loadGpx", "downsample", "normalizePoints", "buildTimeline",
               "buildHeightfield", "writeTrail", "writeTimeline", "writeTerrain">>

EarlyWriteOrder == <<"loadGpx", "downsample", "normalizePoints", "writeTrail",
                     "buildTimeline", "buildHeightfield", "writeTimeline",
                     "writeTerrain">>

PreWriteSteps == {"loadGpx", "downsample", "normalizePoints", "buildTimeline",
                  "buildHeightfield"}

Successor(order, p) ==
    LET i == CHOOSE j \in 1..Len(order) : order[j] = p
    IN IF i = Len(order) THEN "done" ELSE order[i + 1]

NextPcMutant(p) == Successor(EarlyWriteOrder, p)

\* The statement of main that follows step p
NextPc(p) == Successor(MainOrder, p)

\* step = Math.max(1, Math.floor(rawPoints.length / 500));
\* sampled = rawPoints.filter((_, i) => i % step === 0)
DownsampledCount(n) ==
    LET step == Max(1, n \div DownsampleTarget)
    IN Cardinality({i \in 0..(n - 1) : i % step = 0})

\* main().catch((err) => { console.error(err); process.exit(1); })
Catch ==
    /\ pc' = "failed"
    /\ exitCode' = 1

Continue ==
    /\ pc' = NextPc(pc)
    /\ exitCode' = IF NextPc(pc) = "done" THEN 0 ELSE exitCode

loadGpx ==
    /\ pc = "loadGpx"
    /\ IF faultAt = "loadGpx" \/ rawCount = 0 THEN Catch ELSE Continue
    /\ UNCHANGED <<rawCount, faultAt, sampledCount, computed, written, runtimeVars, dataVars>>

downsample ==
    /\ pc = "downsample"
    /\ IF faultAt = "downsample"
       THEN Catch /\ UNCHANGED sampledCount
       ELSE Continue /\ sampledCount' = DownsampledCount(rawCount)
    /\ UNCHANGED <<rawCount, faultAt, computed, written, runtimeVars, dataVars>>

normalizePoints ==
    /\ pc = "normalizePoints"
    /\ IF faultAt = "normalizePoints"
       THEN Catch /\ UNCHANGED computed
       ELSE Continue /\ computed' = computed \cup {"trail"}
    /\ UNCHANGED <<rawCount, faultAt, sampledCount, written, runtimeVars, dataVars>>

buildTimeline ==
    /\ pc = "buildTimeline"
    /\ IF faultAt = "buildTimeline"
       THEN Catch /\ UNCHANGED computed
       ELSE Continue /\ computed' = computed \cup {"timeline"}
    /\ UNCHANGED <<rawCount, faultAt, sampledCount, written, runtimeVars, dataVars>>

buildHeightfield ==
    /\ pc = "buildHeightfield"
    /\ IF faultAt = "buildHeightfield"
       THEN Catch /\ UNCHANGED computed
       ELSE Continue /\ computed' = computed \cup {"terrain"}
    /\ UNCHANGED <<rawCount, faultAt, sampledCount, written, runtimeVars, dataVars>>

\* fs.writeFileSync(path, JSON.stringify(payload, null, 2))
writeFileSync(step, file) ==
    /\ pc = step
    /\ IF faultAt = step
       THEN Catch /\ UNCHANGED written
       ELSE Continue /\ written' = written \cup {file}
    /\ UNCHANGED <<rawCount, faultAt, sampledCount, computed, runtimeVars, dataVars>>

writeTrail == writeFileSync("writeTrail", "trail")

writeTimeline == writeFileSync("writeTimeline", "timeline")

writeTerrain == writeFileSync("writeTerrain", "terrain")

RuntimeIdle ==
    /\ timeline = <<>>
    /\ activeIndex = 0
    /\ isPlaying = FALSE
    /\ lastIndexRef = 0
    /\ playbackElapsedRef = 0
    /\ animatingToStepRef = TRUE
    /\ cameraX = InitialCameraX
    /\ event = "init"
    /\ arg = 0
    /\ lastUser = [kind |-> "none", at |-> 0, was |-> FALSE]
    /\ stepElapsed = FALSE
    /\ advanceCalls = <<>>

PipelineInit ==
    /\ pc = "loadGpx"
    /\ rawCount \in 0..MaxRaw
    /\ faultAt \in {"none"} \cup {MainOrder[i] : i \in 1..Len(MainOrder)}
    /\ sampledCount = 0
    /\ computed = {}
    /\ written = {}
    /\ exitCode = -1
    /\ RuntimeIdle
    /\ DataIdle

PipelineNext ==
    \/ loadGpx
    \/ downsample
    \/ normalizePoints
    \/ buildTimeline
    \/ buildHeightfield
    \/ writeTrail
    \/ writeTimeline
    \/ writeTerrain

PipelineSpec == PipelineInit /\ [][PipelineNext]_vars

-----------------------------------------------------------------------------
(* normalizePoints *)

Min(a, b) == IF a <= b THEN a ELSE b

RECURSIVE FoldMin(_), FoldMax(_)

\* Math.min(...values), Math.max(...values)
FoldMin(values) ==
    IF Len(values) = 1 THEN values[1] ELSE Min(values[1], FoldMin(Tail(values)))

FoldMax(values) ==
    IF Len(values) = 1 THEN values[1] ELSE Max(values[1], FoldMax(Tail(values)))

\* a / b of two numbers, rounded toward zero; a division by zero gives
\* NaN or an infinity, as in JavaScript
Quotient(a, b) ==
    IF b = 0 THEN (IF a = 0 THEN NaN ELSE IF a > 0 THEN Infinity ELSE -Infinity)
    ELSE IF a >= 0 THEN a \div b ELSE -((-a) \div b)

OrFallbackMutant(span, fallback) == span

\* span || fallback : a span of 0 is replaced
OrFallback(span, fallback) == IF span = 0 THEN fallback ELSE span

BoundingBox(raw) ==
    LET lats == [i \in 1..Len(raw) |-> raw[i].lat]
        lons == [i \in 1..Len(raw) |-> raw[i].lon]
        eles == [i \in 1..Len(raw) |-> raw[i].ele]
    IN [minLat |-> FoldMin(lats), maxLat |-> FoldMax(lats),
        minLon |-> FoldMin(lons), maxLon |-> FoldMax(lons),
        minEle |-> FoldMin(eles), maxEle |-> FoldMax(eles)]

\* maxSpan = Math.max(spanLat, spanLon)
MaxSpan(b) ==
    Max(OrFallback(b.maxLat - b.minLat, SpanFallback),
        OrFallback(b.maxLon - b.minLon, SpanFallback))

\* eleSpan = maxEle - minEle || 1
EleSpan(b) == OrFallback(b.maxEle - b.minEle, EleSpanFallback)

\* One sample's [x, y, z], in thousandths.  lon - centerLon is
\* (2 lon - minLon - maxLon) / 2, so x is -(2 lon - minLon - maxLon) * 2 / maxSpan.
NormalizedPoint(p, b) ==
    <<Quotient(-((2 * p.lon - b.minLon - b.maxLon) * (HorizontalExtentMilli \div 2)),
               MaxSpan(b)),
      Quotient((p.ele - b.minEle) * ElevationExtentMilli, EleSpan(b)),
      Quotient((2 * p.lat - b.minLat - b.maxLat) * (HorizontalExtentMilli \div 2),
               MaxSpan(b))>>

NormalizePoints(raw) ==
    LET b == BoundingBox(raw)
    IN [points |-> [i \in 1..Len(raw) |-> NormalizedPoint(raw[i], b)],
        times |-> [i \in 1..Len(raw) |-> raw[i].timeMs],
        bbox |-> b]

\* Sample values: tenths of a degree, metres, milliseconds
CoordValues == {0, 5, 20}

EleValues == {0, 400}

TimeValues == {NaN, 600000}

RawSamples == [lat : CoordValues, lon : CoordValues, ele : EleValues,
               timeMs : TimeValues]

SequencesUpTo(S, n) == UNION {[1..k -> S] : k \in 1..n}

FunctionIdle ==
    /\ rawCount = 0
    /\ faultAt = "none"
    /\ sampledCount = 0
    /\ computed = {}
    /\ written = {}
    /\ exitCode = -1
    /\ RuntimeIdle

NormalizeInit ==
    /\ pc = "call normalizePoints"
    /\ rawPoints \in SequencesUpTo(RawSamples, MaxSamples)
    /\ points = <<>>
    /\ times = <<>>
    /\ bbox = <<>>
    /\ poiDefs = <<>>
    /\ timelinePayload = <<>>
    /\ heights = <<>>
    /\ snapped = <<>>
    /\ FunctionIdle

NormalizeCall ==
    /\ pc = "call normalizePoints"
    /\ pc' = "returned"
    /\ points' = NormalizePoints(rawPoints).points
    /\ times' = NormalizePoints(rawPoints).times
    /\ bbox' = NormalizePoints(rawPoints).bbox
    /\ UNCHANGED <<rawPoints, poiDefs, timelinePayload, heights, snapped, rawCount, faultAt,
                   sampledCount, computed, written, exitCode, runtimeVars>>

NormalizeSpec == NormalizeInit /\ [][NormalizeCall]_vars

-----------------------------------------------------------------------------
(* buildTimeline.  An optional field of a definition is a sequence, empty   *)
(* when the field is absent; a fraction is a pair <<numerator, denominator>>. *)

IsFinite(t) == t # NaN /\ t # Infinity /\ t # -Infinity

FiniteTimes(ts) == SelectSeq(ts, IsFinite)

StartTime(ts) ==
    IF Len(FiniteTimes(ts)) # 0 THEN FoldMin(FiniteTimes(ts)) ELSE NaN

EndTime(ts) ==
    IF Len(FiniteTimes(ts)) # 0 THEN FoldMax(FiniteTimes(ts)) ELSE NaN

TotalDurationMs(ts) ==
    IF IsFinite(StartTime(ts)) /\ IsFinite(EndTime(ts))
    THEN EndTime(ts) - StartTime(ts)
    ELSE 0

\* typeof field === 'number', typeof field === 'string'
Has(field) == Len(field) = 1

HasElapsed(poi) == Has(poi.elapsedSeconds) \/ Has(poi.elapsedMinutes)

RuleAppliesMutant(poi, ts) == HasElapsed(poi) /\ IsFinite(StartTime(ts))

\* The condition of the elapsed-time branch
RuleApplies(poi, ts) ==
    HasElapsed(poi) /\ IsFinite(StartTime(ts)) /\ TotalDurationMs(ts) > 0

ElapsedSeconds(poi) ==
    IF Has(poi.elapsedSeconds)
    THEN poi.elapsedSeconds[1]
    ELSE poi.elapsedMinutes[1] * 60

TargetTimeMsMutant(poi, ts) ==
    StartTime(ts) - (ElapsedSeconds(poi) * 1000) \div ElapsedUnitsPerSecond

TargetTimeMs(poi, ts) ==
    StartTime(ts) + (ElapsedSeconds(poi) * 1000) \div ElapsedUnitsPerSecond

CloserMutant(diff, bestDiff) == diff <= bestDiff

Closer(diff, bestDiff) == diff < bestDiff

RECURSIVE ScanTimes(_, _, _, _, _)

\* The for loop over times, from index i on
ScanTimes(ts, target, i, bestIdx, bestDiff) ==
    IF i >= Len(ts) THEN bestIdx
    ELSE IF ~IsFinite(ts[i + 1]) THEN ScanTimes(ts, target, i + 1, bestIdx, bestDiff)
    ELSE IF Closer(Abs(ts[i + 1] - target), bestDiff)
         THEN ScanTimes(ts, target, i + 1, i, Abs(ts[i + 1] - target))
         ELSE ScanTimes(ts, target, i + 1, bestIdx, bestDiff)

ElapsedMatch(poi, ts) == ScanTimes(ts, TargetTimeMs(poi, ts), 0, 0, Infinity)

\* Math.min(1, Math.max(0, fraction))
Clamp01(fr) ==
    IF fr[1] < 0 THEN <<0, 1>> ELSE IF fr[1] > fr[2] THEN <<1, 1>> ELSE fr

FallbackFractionMutant(poi, index, count) ==
    IF Has(poi.fraction) THEN Clamp01(poi.fraction[1]) ELSE <<index, Max(1, count)>>

FallbackFraction(poi, index, count) ==
    IF Has(poi.fraction) THEN Clamp01(poi.fraction[1]) ELSE <<index, Max(1, count - 1)>>

\* Math.floor(fraction * (points.length - 1))
FallbackIndex(poi, index, count, n) ==
    (FallbackFraction(poi, index, count)[1] * (n - 1))
        \div FallbackFraction(poi, index, count)[2]

\* idx after the clamp into 0 .. points.length - 1
SnapIndex(poi, index, pts, ts, count) ==
    Max(0, Min(Len(pts) - 1,
               IF RuleApplies(poi, ts)
               THEN ElapsedMatch(poi, ts)
               ELSE FallbackIndex(poi, index, count, Len(pts))))

PointAtMutant(pts, idx) == IF idx + 2 \in DOMAIN pts THEN pts[idx + 2] ELSE <<>>

\* points[idx]; undefined (and then a TypeError) outside the array
PointAt(pts, idx) == IF idx + 1 \in DOMAIN pts THEN pts[idx + 1] ELSE <<>>

\* String(n).padStart(2, '0')
PadStart2(str) == IF Len(str) < 2 THEN "0" \o str ELSE str

ElapsedLabelSecondsMutant(totalSeconds) ==
    Max(0, (2 * totalSeconds + ElapsedUnitsPerSecond) \div (2 * ElapsedUnitsPerSecond))

\* clamped = Math.max(0, Math.floor(totalSeconds))
ElapsedLabelSeconds(totalSeconds) == Max(0, totalSeconds \div ElapsedUnitsPerSecond)

formatElapsedLabel(totalSeconds) ==
    PadStart2(ToString(ElapsedLabelSeconds(totalSeconds) \div 60)) \o ":"
        \o PadStart2(ToString(ElapsedLabelSeconds(totalSeconds) % 60))

LabelTime(poi, index) ==
    IF Has(poi.time) THEN poi.time[1]
    ELSE IF HasElapsed(poi) THEN formatElapsedLabel(ElapsedSeconds(poi))
    ELSE "00:" \o PadStart2(ToString(index * 10))

BuildTimeline(pts, ts, defs) ==
    [k \in 1..Len(defs) |->
        [time |-> LabelTime(defs[k], k - 1),
         label |-> defs[k].name,
         position |-> PointAt(pts, SnapIndex(defs[k], k - 1, pts, ts, Len(defs)))]]

\* What each iteration of the forEach did
Snapped(pts, ts, defs) ==
    [k \in 1..Len(defs) |->
        [rule |-> IF RuleApplies(defs[k], ts) THEN "elapsed" ELSE "fraction",
         idx |-> SnapIndex(defs[k], k - 1, pts, ts, Len(defs))]]

\* Timestamps of a 20 minute track, or missing
TrackTimes == {NaN, 0, 600000, 1200000}

\* Trail points, all different
TrailOfLength(n) == [i \in 1..n |-> <<100 * i, 10 * i, -(100 * i)>>]

Poi(time, sec, min, fr) ==
    [name |-> "POI", time |-> time, elapsedSeconds |-> sec, elapsedMinutes |-> min,
     fraction |-> fr]

PoiOptions ==
    { Poi(<<>>, <<>>, <<>>, <<>>),
      Poi(<<"08:15">>, <<6000>>, <<>>, <<>>),
      Poi(<<>>, <<-6005>>, <<>>, <<<<-1, 2>>>>),
      Poi(<<>>, <<3000>>, <<>>, <<>>),
      Poi(<<>>, <<6000>>, <<>>, <<<<1, 2>>>>),
      Poi(<<>>, <<20005>>, <<>>, <<<<3, 2>>>>),
      Poi(<<>>, <<>>, <<100>>, <<>>),
      Poi(<<>>, <<0>>, <<100>>, <<>>),
      Poi(<<>>, <<>>, <<>>, <<<<1, 2>>>>) }

TimelineInit ==
    /\ pc = "call buildTimeline"
    /\ times \in SequencesUpTo(TrackTimes, MaxPts)
    /\ points = TrailOfLength(Len(times))
    /\ poiDefs \in SequencesUpTo(PoiOptions, MaxPois)
    /\ rawPoints = <<>>
    /\ bbox = <<>>
    /\ timelinePayload = <<>>
    /\ heights = <<>>
    /\ snapped = <<>>
    /\ FunctionIdle

TimelineCall ==
    /\ pc = "call buildTimeline"
    /\ pc' = "returned"
    /\ timelinePayload' = BuildTimeline(points, times, poiDefs)
    /\ snapped' = Snapped(points, times, poiDefs)
    /\ UNCHANGED <<rawPoints, points, times, bbox, poiDefs, heights, rawCount, faultAt,
                   sampledCount, computed, written, exitCode, runtimeVars>>

TimelineSpec == TimelineInit /\ [][TimelineCall]_vars

-----------------------------------------------------------------------------
(* buildHeightfield.  Planar coordinates (u, v, tx, tz) are in units of     *)
(* 1 / (resolution - 1), in which the grid coordinates are integers.  A     *)
(* height nearestY * Math.exp(-minDistSq / twoSigmaSq) is kept as the pair  *)
(* of nearestY and the exponent, the exponent as its numerator over         *)
(* ExponentScale; Math.exp is increasing and Math.exp(0) is 1.              *)

\* u of column i, v of row j
GridCoord(i) == i * size - (size \div 2) * (resolution - 1)

\* twoSigmaSq = 2 * sigma * sigma, in hundredths
TwoSigmaSqHundredths == 2 * SigmaTenths * SigmaTenths

ExponentScale == (resolution - 1) * (resolution - 1) * TwoSigmaSqHundredths

ExponentMutant(minDistSq) == minDistSq * 100

\* -minDistSq / twoSigmaSq
Exponent(minDistSq) == -(minDistSq * 100)

\* distSq = dx * dx + dz * dz
DistSq(u, v, p) == (u - p[1]) * (u - p[1]) + (v - p[3]) * (v - p[3])

NearerMutant(distSq, minDistSq) == distSq <= minDistSq

Nearer(distSq, minDistSq) == distSq < minDistSq

RECURSIVE ScanPoints(_, _, _, _, _, _)

\* The for loop over points, from index k on
ScanPoints(pts, u, v, k, nearestY, minDistSq) ==
    IF k >= Len(pts) THEN [y |-> nearestY, exponent |-> Exponent(minDistSq)]
    ELSE IF Nearer(DistSq(u, v, pts[k + 1]), minDistSq)
         THEN ScanPoints(pts, u, v, k + 1, pts[k + 1][2], DistSq(u, v, pts[k + 1]))
         ELSE ScanPoints(pts, u, v, k + 1, nearestY, minDistSq)

\* heights: row j, column i
BuildHeightfield(pts) ==
    [j1 \in 1..resolution |->
        [i1 \in 1..resolution |->
            ScanPoints(pts, GridCoord(i1 - 1), GridCoord(j1 - 1), 0, 0, Infinity)]]

\* Trail points <<x, y, z>>: x and z in units of 1 / (resolution - 1) within
\* [-2, 2], y in thousandths within [0, 0.8]
TrailPoints ==
    { <<4, 800, -4>>, <<4, 200, -4>>, <<-8, 300, 0>>, <<16, 500, 0>>,
      <<0, 400, 0>>, <<-126, 0, 126>>, <<-60, 100, 20>> }

HeightfieldInit ==
    /\ pc = "call buildHeightfield"
    /\ points \in SequencesUpTo(TrailPoints, MaxTrail)
    /\ rawPoints = <<>>
    /\ times = <<>>
    /\ bbox = <<>>
    /\ poiDefs = <<>>
    /\ timelinePayload = <<>>
    /\ heights = <<>>
    /\ snapped = <<>>
    /\ FunctionIdle

HeightfieldCall ==
    /\ pc = "call buildHeightfield"
    /\ pc' = "returned"
    /\ heights' = BuildHeightfield(points)
    /\ UNCHANGED <<rawPoints, points, times, bbox, poiDefs, timelinePayload, snapped,
                   rawCount, faultAt, sampledCount, computed, written, exitCode,
                   runtimeVars>>

HeightfieldSpec == HeightfieldInit /\ [][HeightfieldCall]_vars

-----------------------------------------------------------------------------
(* The downsampling of main alone, over tracks of every length up to MaxTrack *)

DownsampleInit ==
    /\ pc = "downsample"
    /\ rawCount \in 1..MaxTrack
    /\ faultAt = "none"
    /\ sampledCount = 0
    /\ computed = {}
    /\ written = {}
    /\ exitCode = -1
    /\ RuntimeIdle
    /\ DataIdle

DownsampleNext == downsample

DownsampleSpec == DownsampleInit /\ [][DownsampleNext]_vars

-----------------------------------------------------------------------------
(* Claims *)

LastIndex == Len(timeline) - 1

NoCall == <<>>

\* C1 (as stated): when a whole step has elapsed during playback at the last
\* timeline index, isPlaying has become false and activeIndex is still the
\* last index.
C1_TerminalStopsPlayback ==
    (event = "frame" /\ stepElapsed /\ advanceCalls = NoCall /\ Len(timeline) > 0)
        => (~isPlaying /\ activeIndex = LastIndex)

\* C2: with a non-empty timeline activeIndex is always a valid index,
\* 0 <= activeIndex <= timeline.length - 1.
C2_ActiveIndexValid ==
    Len(timeline) > 0 => (activeIndex >= 0 /\ activeIndex <= LastIndex)

\* C2 witness: playback has just advanced into the last entry of a timeline
\* of several entries.
C2_Witness ==
    /\ Len(timeline) > 1
    /\ event = "frame"
    /\ advanceCalls = <<LastIndex>>
    /\ activeIndex = LastIndex

\* C3 (as stated): right after any selection of index k, activeIndex = k,
\* isPlaying is false, the animation toward k is armed and the step timer is 0.
C3_SelectArmsAnimation ==
    event = "select"
        => (activeIndex = arg /\ ~isPlaying /\ animatingToStepRef
            /\ playbackElapsedRef = 0)

\* C4 (as stated): a frame that runs while isPlaying is true leaves the camera
\* where it was.
C4_PlaybackKeepsCamera ==
    [][(isPlaying /\ event' = "frame") => cameraX' = cameraX]_vars

\* C5: a frame during playback (timeline not empty) adds delta to the step
\* timer; when the sum reaches the step duration the timer returns to 0 and,
\* if activeIndex + 1 is valid, onStepAutoAdvance is called exactly once, with
\* activeIndex + 1, activeIndex becomes activeIndex + 1 and isPlaying stays
\* true; otherwise nothing is called and activeIndex stays.  No frame moves
\* activeIndex by more than one.
C5_AutoAdvanceStep ==
    [][(isPlaying /\ event' = "frame" /\ Len(timeline) > 0) =>
          LET t == playbackElapsedRef + arg'
          IN IF t < PLAYBACK_SECONDS_PER_STEP * 2
             THEN /\ playbackElapsedRef' = t
                  /\ advanceCalls' = NoCall
                  /\ activeIndex' = activeIndex
             ELSE /\ playbackElapsedRef' = 0
                  /\ IF activeIndex + 1 <= LastIndex
                     THEN /\ advanceCalls' = <<activeIndex + 1>>
                          /\ activeIndex' = activeIndex + 1
                          /\ isPlaying'
                     ELSE /\ advanceCalls' = NoCall
                          /\ activeIndex' = activeIndex]_vars

\* C5 witness: playback has advanced twice, the last time in one frame whose
\* delta spans two whole steps, and the index moved by one.
C5_Witness ==
    /\ event = "frame"
    /\ arg = 2 * (PLAYBACK_SECONDS_PER_STEP * 2)
    /\ advanceCalls = <<activeIndex>>
    /\ activeIndex > 1
    /\ isPlaying

\* C6: while isPlaying is false no frame calls onStepAutoAdvance or changes
\* activeIndex, and only a play toggle makes isPlaying true again.
C6_Cancellation ==
    [][/\ (~isPlaying /\ event' = "frame")
            => (advanceCalls' = NoCall /\ activeIndex' = activeIndex)
       /\ (~isPlaying /\ event' # "toggle") => ~isPlaying']_vars

\* C6 witness: play was toggled off in the middle of a step, not at the last
\* index, and a frame with a delta of a whole step or more has run since.
C6_Witness ==
    /\ lastUser.kind = "pause"
    /\ lastUser.at > 0
    /\ event = "frame"
    /\ arg >= PLAYBACK_SECONDS_PER_STEP * 2
    /\ activeIndex < LastIndex

C8_ArrivalConvergence ==
    /\ [][(animatingToStepRef /\ event' = "frame") =>
             DistanceTo(cameraX', LerpTarget(timeline, activeIndex))
                 = (DistanceTo(cameraX, LerpTarget(timeline, activeIndex)) * 96)
                       \div 100]_vars
    /\ [][~animatingToStepRef => cameraX' = cameraX]_vars
    /\ <>[](~animatingToStepRef)

\* C8 witness: the controller is idle, the camera within the threshold of the
\* target after a frame.
C8_Witness ==
    /\ ~animatingToStepRef
    /\ event = "frame"
    /\ DistanceTo(cameraX, LerpTarget(timeline, activeIndex)) < ARRIVAL_THRESHOLD
    /\ cameraX # LerpTarget(timeline, activeIndex)

\* C9: with an empty timeline a frame moves no camera, accumulates no time and
\* calls nothing, whatever isPlaying and delta are.
C9_EmptyTimelineNoOp ==
    [][(Len(timeline) = 0 /\ event' = "frame") =>
          /\ cameraX' = cameraX
          /\ playbackElapsedRef' = playbackElapsedRef
          /\ animatingToStepRef' = animatingToStepRef
          /\ advanceCalls' = NoCall]_vars

\* C9 witness: a frame with a delta of a whole step or more has run during
\* playback over an empty timeline.
C9_Witness ==
    /\ Len(timeline) = 0
    /\ isPlaying
    /\ event = "frame"
    /\ arg >= PLAYBACK_SECONDS_PER_STEP * 2

\* C10: no file is written before all three payloads are computed; a run that
\* fails ends with exit status 1; a run that has no sample, or fails in a step
\* before the write phase, has written none of the three files.
C10_NoOutputOnEarlyFailure ==
    /\ written # {} => computed = Files
    /\ pc = "failed" => exitCode = 1
    /\ (pc = "failed" /\ (rawCount = 0 \/ faultAt \in PreWriteSteps))
           => written = {}
    /\ (rawCount = 0 /\ pc # "loadGpx") => pc = "failed"

\* C10 witness: a run over a track without samples, nothing else going wrong,
\* has ended.
C10_Witness ==
    /\ pc = "failed"
    /\ rawCount = 0
    /\ faultAt = "none"
    /\ exitCode = 1

\* C11 (as stated): when a run has ended, with or without an error, either
\* all three files are those of this run or none of them is.
C11_AllOrNothing ==
    pc \in {"done", "failed"} => (written = {} \/ written = Files)

\* C12 (as stated): the downsampling of N >= 1 samples keeps at least 1 and at
\* most 500 + 1 of them.
C12_DownsampleBound ==
    (pc # "downsample" /\ rawCount >= 1)
        => (sampledCount >= 1 /\ sampledCount <= DownsampleTarget + 1)

\* C13: for every non-empty sample sequence, zero spans included, the spans
\* normalizePoints divides by are not zero, every x and z it produces lies in
\* [-2, 2] and every y in [0, 0.8].
C13_NormalizationBounds ==
    pc = "returned" =>
        /\ MaxSpan(bbox) # 0
        /\ EleSpan(bbox) # 0
        /\ Len(points) = Len(rawPoints)
        /\ \A i \in 1..Len(points) :
              /\ points[i][1] >= -2000 /\ points[i][1] <= 2000
              /\ points[i][3] >= -2000 /\ points[i][3] <= 2000
              /\ points[i][2] >= 0 /\ points[i][2] <= 800

\* C13 witness: a single sample, all three spans zero, has been normalized.
C13_Witness ==
    /\ pc = "returned"
    /\ Len(rawPoints) = 1
    /\ bbox.minLat = bbox.maxLat /\ bbox.minLon = bbox.maxLon
    /\ bbox.minEle = bbox.maxEle
    /\ points = <<<<0, 0, 0>>>>

\* The definitions and the entries buildTimeline made of them
Entries == 1..Len(poiDefs)

TimelineBuilt == pc = "returned" /\ Len(snapped) = Len(poiDefs)

\* C14: every entry's position is points[idx] for the index idx chosen, which
\* is within 0 .. pointCount - 1, whatever the elapsed values and fractions;
\* no lookup leaves the trail.
C14_OnTrail ==
    TimelineBuilt =>
        /\ Len(timelinePayload) = Len(poiDefs)
        /\ \A k \in Entries :
              /\ snapped[k].idx \in 0..(Len(points) - 1)
              /\ timelinePayload[k].position = points[snapped[k].idx + 1]

\* C14 witness: on a trail of several points without timestamps, a definition
\* with fraction 3/2 was placed on the last point and one with fraction -1/2
\* on the first.
C14_Witness ==
    /\ TimelineBuilt
    /\ Len(points) >= 2
    /\ \E k \in Entries :
          /\ poiDefs[k].fraction = <<<<3, 2>>>>
          /\ snapped[k].rule = "fraction"
          /\ timelinePayload[k].position = points[Len(points)]
    /\ \E k \in Entries :
          /\ poiDefs[k].fraction = <<<<-1, 2>>>>
          /\ snapped[k].rule = "fraction"
          /\ timelinePayload[k].position = points[1]

\* C15 (as stated): a definition with an elapsed field is placed by the
\* elapsed-time match exactly when the track has at least one finite timestamp.
C15_RuleSelection_AsStated ==
    TimelineBuilt =>
        \A k \in Entries :
            (snapped[k].rule = "elapsed")
                <=> (HasElapsed(poiDefs[k]) /\ \E i \in DOMAIN times : IsFinite(times[i]))

\* C15 (amended): a definition with an elapsed field is placed by the
\* elapsed-time match exactly when two finite timestamps of the track differ;
\* otherwise the fractional fallback places it.
C15_RuleSelection ==
    TimelineBuilt =>
        \A k \in Entries :
            /\ snapped[k].rule \in {"elapsed", "fraction"}
            /\ (snapped[k].rule = "elapsed")
                  <=> /\ HasElapsed(poiDefs[k])
                      /\ \E i, j \in DOMAIN times :
                            IsFinite(times[i]) /\ IsFinite(times[j]) /\ times[i] < times[j]

\* C15 witness: a definition with elapsedSeconds, on a track whose finite
\* timestamps are all equal, went to the fractional fallback.
C15_Witness ==
    /\ TimelineBuilt
    /\ Len(times) >= 2
    /\ \A i \in DOMAIN times : times[i] = 600000
    /\ \E k \in Entries :
          Has(poiDefs[k].elapsedSeconds) /\ snapped[k].rule = "fraction"

\* minTimestamp, and targetTime = minTimestamp + elapsedSeconds * 1000 of entry k
C16_MinTimestamp ==
    CHOOSE t \in {times[i] : i \in DOMAIN times} :
        IsFinite(t) /\ \A i \in DOMAIN times : IsFinite(times[i]) => t <= times[i]

C16_TargetTime(k) ==
    C16_MinTimestamp
        + (IF Has(poiDefs[k].elapsedSeconds)
           THEN poiDefs[k].elapsedSeconds[1] * 100
           ELSE poiDefs[k].elapsedMinutes[1] * 6000)

\* C16: when the elapsed-time rule is applied, the index chosen is the lowest
\* index among the samples with a finite timestamp that are nearest to
\* targetTime; on timestamps 0, 600000, 1200000, elapsedSeconds 600 gives index 1.
C16_ElapsedMatch ==
    TimelineBuilt =>
        \A k \in Entries :
            snapped[k].rule = "elapsed" =>
                /\ IsFinite(times[snapped[k].idx + 1])
                /\ \A j \in 0..(Len(times) - 1) :
                      IsFinite(times[j + 1]) =>
                          \/ Abs(times[snapped[k].idx + 1] - C16_TargetTime(k))
                                < Abs(times[j + 1] - C16_TargetTime(k))
                          \/ /\ Abs(times[snapped[k].idx + 1] - C16_TargetTime(k))
                                   = Abs(times[j + 1] - C16_TargetTime(k))
                             /\ snapped[k].idx <= j
                /\ (times = <<0, 600000, 1200000>> /\ poiDefs[k].elapsedSeconds = <<6000>>)
                      => snapped[k].idx = 1

\* C16 witness: a target halfway between two finite timestamps, behind a
\* sample without timestamp, selected the earlier of the two.
C16_Witness ==
    /\ TimelineBuilt
    /\ times = <<NaN, 0, 600000>>
    /\ \E k \in Entries :
          /\ poiDefs[k].elapsedSeconds = <<3000>>
          /\ snapped[k].rule = "elapsed"
          /\ snapped[k].idx = 1

\* The timestamps present are non-decreasing in sample order
C17_TimesNonDecreasing ==
    \A i, j \in DOMAIN times :
        (i < j /\ IsFinite(times[i]) /\ IsFinite(times[j])) => times[i] <= times[j]

\* C17: on a track with non-decreasing timestamps, definitions placed by the
\* elapsed-time match whose elapsed times are non-decreasing in definition
\* order get non-decreasing trail indices.
C17_Monotonic ==
    (TimelineBuilt /\ C17_TimesNonDecreasing) =>
        \A k, l \in Entries :
            (/\ k < l
             /\ snapped[k].rule = "elapsed" /\ snapped[l].rule = "elapsed"
             /\ ElapsedSeconds(poiDefs[k]) <= ElapsedSeconds(poiDefs[l]))
                => snapped[k].idx <= snapped[l].idx

\* C17 witness: 0, 600000, 1200000 with elapsed times 300 s then 2000.5 s
\* gave indices 0 then 2.
C17_Witness ==
    /\ TimelineBuilt
    /\ times = <<0, 600000, 1200000>>
    /\ Len(poiDefs) = 2
    /\ poiDefs[1].elapsedSeconds = <<3000>> /\ poiDefs[2].elapsedSeconds = <<20005>>
    /\ snapped[1].idx = 0 /\ snapped[2].idx = 2

\* n written with at least two digits
C18_TwoDigits(n) == IF n < 10 THEN "0" \o ToString(n) ELSE ToString(n)

\* s = max(0, floor(elapsedSeconds)) of entry k, elapsedMinutes * 60 when only
\* minutes are given
C18_Seconds(k) ==
    LET tenths == IF Has(poiDefs[k].elapsedSeconds)
                  THEN poiDefs[k].elapsedSeconds[1]
                  ELSE poiDefs[k].elapsedMinutes[1] * 60
        floor == tenths \div 10
    IN IF floor < 0 THEN 0 ELSE floor

C19_Index(num, den) ==
    LET floor == CHOOSE f \in -100..100 :
                     f * den <= num * (Len(points) - 1) /\ num * (Len(points) - 1) < (f + 1) * den
    IN IF floor < 0 THEN 0 ELSE IF floor > Len(points) - 1 THEN Len(points) - 1 ELSE floor

\* C19: under the fallback rule the index is floor(fraction * (pointCount - 1))
\* clamped into 0 .. pointCount - 1, the fraction being the explicit one if
\* given and index / max(1, count - 1) otherwise; with two or more definitions
\* and no explicit fraction, the first lands on point 0 and the last on point
\* pointCount - 1.
C19_Fallback ==
    TimelineBuilt =>
        \A k \in Entries :
            snapped[k].rule = "fraction" =>
                /\ Has(poiDefs[k].fraction) =>
                      snapped[k].idx = C19_Index(poiDefs[k].fraction[1][1],
                                                 poiDefs[k].fraction[1][2])
                /\ ~Has(poiDefs[k].fraction) =>
                      snapped[k].idx =
                          C19_Index(k - 1, IF Len(poiDefs) - 1 > 1 THEN Len(poiDefs) - 1 ELSE 1)
                /\ (~Has(poiDefs[k].fraction) /\ Len(poiDefs) >= 2 /\ k = 1) =>
                      timelinePayload[k].position = points[1]
                /\ (~Has(poiDefs[k].fraction) /\ Len(poiDefs) >= 2 /\ k = Len(poiDefs)) =>
                      timelinePayload[k].position = points[Len(points)]

\* C19 witness: two definitions without fraction on a trail of three points
\* landed on the first and the last point.
C19_Witness ==
    /\ TimelineBuilt
    /\ Len(points) = 3
    /\ Len(poiDefs) = 2
    /\ \A k \in Entries : ~Has(poiDefs[k].fraction) /\ snapped[k].rule = "fraction"
    /\ snapped[1].idx = 0 /\ snapped[2].idx = 2

Cells == 0..(resolution - 1)

HeightfieldBuilt == pc = "returned" /\ Len(heights) = resolution

\* Squared planar distance from cell (i, j) to trail point k
C20_DistSq(i, j, k) ==
    LET dx == GridCoord(i) - points[k][1]
        dz == GridCoord(j) - points[k][3]
    IN dx * dx + dz * dz

C20_Cell(i, j) == heights[j + 1][i + 1]

\* Squared distance from each cell to the trail, row j + 1, column i + 1
C20_MinDistSq ==
    LET row(j) == [i1 \in 1..resolution |->
                     FoldMin([l \in DOMAIN points |-> C20_DistSq(i1 - 1, j, l)])]
    IN SubSeq([j1 \in 1..resolution |-> SubSeq(row(j1 - 1), 1, resolution)],
              1, resolution)

\* C20: every cell (i, j) holds the y of the nearest trail point, the one of
\* lowest index among equally near ones, with a falloff exponent that is 0 at
\* distance 0 and otherwise negative, and smaller the larger the squared
\* distance (compared with the next cell of the row and of the column).
C20_CellValue ==
    HeightfieldBuilt =>
        LET d == C20_MinDistSq
            Falls(i, j, i2, j2) ==
                /\ d[j + 1][i + 1] < d[j2 + 1][i2 + 1]
                     => C20_Cell(i, j).exponent > C20_Cell(i2, j2).exponent
                /\ d[j + 1][i + 1] > d[j2 + 1][i2 + 1]
                     => C20_Cell(i, j).exponent < C20_Cell(i2, j2).exponent
        IN \A i, j \in Cells :
               /\ \E k \in DOMAIN points :
                     /\ C20_Cell(i, j).y = points[k][2]
                     /\ C20_DistSq(i, j, k) = d[j + 1][i + 1]
                     /\ \A l \in 1..(k - 1) : C20_DistSq(i, j, l) > d[j + 1][i + 1]
               /\ d[j + 1][i + 1] = 0 => C20_Cell(i, j).exponent = 0
               /\ d[j + 1][i + 1] > 0 => C20_Cell(i, j).exponent < 0
               /\ i + 1 \in Cells => Falls(i, j, i + 1, j)
               /\ j + 1 \in Cells => Falls(i, j, i, j + 1)

\* C20 witness: two trail points equally near to the cells of column 32, the
\* second one higher; the cell (32, 31) took the y of the first, and a cell on a
\* trail point has exponent 0 in the grid of another trail.
C20_Witness ==
    /\ HeightfieldBuilt
    /\ points = <<<<-8, 300, 0>>, <<16, 500, 0>>>>
    /\ C20_DistSq(32, 31, 1) = C20_DistSq(32, 31, 2)
    /\ C20_Cell(32, 31).y = 300
    /\ C20_Cell(32, 31).exponent < 0

\* The trail is a single point at the origin
C21_SinglePointAtOrigin ==
    HeightfieldBuilt /\ Len(points) = 1 /\ points[1][1] = 0 /\ points[1][3] = 0

\* Squared planar distance from cell (i, j) to the origin
C21_OriginDistSq(i, j) == GridCoord(i) * GridCoord(i) + GridCoord(j) * GridCoord(j)

\* The column (row) with the same |u| (|v|) in the half u > 0 (v > 0)
C21_Mirror(i) == IF GridCoord(i) > 0 THEN i ELSE resolution - 1 - i

\* The indices of the half u > 0
C21_Half == {i \in Cells : GridCoord(i) > 0}

\* The values of two cells are ordered against their distances to the origin
\* (the y of both being the same and positive, the values are ordered as the
\* exponents are)
C21_Ordered(i, j, i2, j2) ==
    LET d1 == C21_OriginDistSq(i, j)
        d2 == C21_OriginDistSq(i2, j2)
        e1 == C20_Cell(i, j).exponent
        e2 == C20_Cell(i2, j2).exponent
    IN /\ C20_Cell(i, j).y = C20_Cell(i2, j2).y
       /\ d1 < d2 => e1 > e2
       /\ d1 = d2 => e1 = e2
       /\ d1 > d2 => e1 < e2

\* The grid values strictly decrease with the distance from the origin: every
\* cell is ordered against the cell with the same |u| and |v| in the quadrant
\* u > 0, v > 0 and against the one with |u| and |v| exchanged, and the cells
\* of that quadrant with i <= j against each other
C21_Decreases ==
    /\ \A i, j \in Cells :
          /\ C21_Ordered(i, j, C21_Mirror(i), C21_Mirror(j))
          /\ C21_Ordered(i, j, C21_Mirror(j), C21_Mirror(i))
    /\ \A i \in C21_Half : \A j \in C21_Half : \A i2 \in C21_Half : \A j2 \in C21_Half :
          (i <= j /\ i2 <= j2) => C21_Ordered(i, j, i2, j2)

C22_OnlySelectionAnimates ==
    [][(event' \in {"toggle", "frame"} /\ ~animatingToStepRef)
          => ~animatingToStepRef']_vars

\* C23: the step timer is 0 after every step that changes activeIndex or
\* isPlaying, and whenever isPlaying is false; a click leaves it or resets it,
\* a frame adds its delta to it or resets it, and a frame calls
\* onStepAutoAdvance only when the timer plus the delta has reached the step
\* duration: so no auto-advance comes before 2.0 s of frame time since the last
\* change, and a pause discards the progress of the step.
C23_TimerReset ==
    [][/\ (activeIndex' # activeIndex \/ isPlaying' # isPlaying) => playbackElapsedRef' = 0
       /\ ~isPlaying => playbackElapsedRef = 0
       /\ ~isPlaying' => playbackElapsedRef' = 0
       /\ event' # "frame" => playbackElapsedRef' \in {0, playbackElapsedRef}
       /\ event' = "frame" => playbackElapsedRef' \in {0, playbackElapsedRef + arg'}
       /\ (event' = "frame" /\ advanceCalls' # NoCall)
            => playbackElapsedRef + arg' >= PLAYBACK_SECONDS_PER_STEP * 2]_vars

\* C23 witness: play was resumed, and frames shorter than a step have added up
\* to a step: the last of them advanced the index and left the timer at 0.
C23_Witness ==
    /\ lastUser.kind = "play"
    /\ event = "frame"
    /\ arg > 0 /\ arg < PLAYBACK_SECONDS_PER_STEP * 2
    /\ advanceCalls = <<activeIndex>>
    /\ playbackElapsedRef = 0
    /\ isPlaying

\* C24 (as stated): a Reset click sets activeIndex to 0 and leaves isPlaying as
\* it was; during playback it also restarts the step timer and makes the next
\* advance start from index 0, and does not arm the camera animation; and as
\* long as playback stays at index 0 after it, no frame moves the camera
\* (the camera is not sent to checkpoint 0).
C24_Reset ==
    [][/\ event' = "reset" =>
             /\ activeIndex' = 0
             /\ isPlaying' = isPlaying
             /\ isPlaying => /\ playbackElapsedRef' = 0
                             /\ lastIndexRef' = 0
                             /\ animatingToStepRef' = animatingToStepRef
                             /\ cameraX' = cameraX
       /\ (lastUser.kind = "reset" /\ lastUser.was /\ isPlaying /\ activeIndex = 0
             /\ event' = "frame")
            => cameraX' = cameraX]_vars

====
